---- MODULE Spec2Model ----
(***************************************************************************)
(* A model of the WebSocket server of this repository: the 'data' handler  *)
(* of each accepted socket, the classification of a delivered chunk, the   *)
(* handshake negotiation (key extraction, SHA-1, base64) and the frame     *)
(* codec (parseMessage, encodeReply).                                      *)
(*                                                                         *)
(* The repository holds two versions of the class WebSocketServer:         *)
(*   "part_000"       src/unnamed/part_000                                 *)
(*   "server_classes" src/server/classes/WebSocketServer.js                *)
(* The variable `variant` says which of the two is running.                *)
(*                                                                         *)
(* Text is a sequence of character codes, a Buffer a sequence of bytes.    *)
(***************************************************************************)
EXTENDS Integers, Sequences, FiniteSets, TLC

(***************************************************************************)
(* Characters.  Printable ASCII, code 32 (space) to 126 (~), in order; the *)
(* grave accent (96), which a TLA+ string cannot hold, is spelled out.     *)
(***************************************************************************)
Printable ==
  << " ", "!", "\"", "#", "$", "%", "&", "'", "(", ")", "*", "+", ",", "-", ".", "/",
     "0", "1", "2", "3", "4", "5", "6", "7", "8", "9", ":", ";", "<", "=", ">", "?",
     "@", "A", "B", "C", "D", "E", "F", "G", "H", "I", "J", "K", "L", "M", "N", "O",
     "P", "Q", "R", "S", "T", "U", "V", "W", "X", "Y", "Z", "[", "\\", "]", "^", "_",
     "grave", "a", "b", "c", "d", "e", "f", "g", "h", "i", "j", "k", "l", "m", "n", "o",
     "p", "q", "r", "s", "t", "u", "v", "w", "x", "y", "z", "{", "|", "}", "~" >>

Ord(c) == 31 + (CHOOSE i \in 1..Len(Printable) : Printable[i] = c)

\* The text whose characters are the one-character strings of the tuple t.
Str(t) == [i \in 1..Len(t) |-> Ord(t[i])]

CR == 13
LF == 10

(***************************************************************************)
(* Bit operations on naturals (JavaScript's ^ and & on byte values, and    *)
(* the 16-bit halves of SHA-1's 32-bit words).                             *)
(***************************************************************************)
RECURSIVE BitXor(_, _)
BitXor(a, b) ==
  IF a = 0 THEN b
  ELSE IF b = 0 THEN a
  ELSE (((a % 2) + (b % 2)) % 2) + 2 * BitXor(a \div 2, b \div 2)

RECURSIVE BitAnd(_, _)
BitAnd(a, b) ==
  IF a = 0 \/ b = 0 THEN 0
  ELSE (a % 2) * (b % 2) + 2 * BitAnd(a \div 2, b \div 2)

BitOr(a, b) == a + b - BitAnd(a, b)

(***************************************************************************)
(* JavaScript string methods used by the server.                           *)
(***************************************************************************)
\* The positions of the line feeds of s.
LineFeeds(s) == { i \in 1..Len(s) : s[i] = LF }

\* The k-th smallest position of nl; 0 for k = 0, n + 1 past the last.
LineFeedAt(nl, k, n) ==
  IF k = 0 THEN 0
  ELSE IF k > Cardinality(nl) THEN n + 1
  ELSE CHOOSE p \in nl : Cardinality({ q \in nl : q < p }) = k - 1

\* The pieces of s between the positions nl.
SplitAt(s, nl) ==
  [k \in 1..(Cardinality(nl) + 1) |->
     SubSeq(s, LineFeedAt(nl, k - 1, Len(s)) + 1, LineFeedAt(nl, k, Len(s)) - 1)]

\* str.split('\n'): the pieces between line feeds, at least one piece.
split(s) == SplitAt(s, LineFeeds(s))

\* line.startsWith(pat, 0)
startsWith(line, pat) ==
  /\ Len(pat) <= Len(line)
  /\ \A i \in 1..Len(pat) : line[i] = pat[i]

\* line.includes(pat)
includes(line, pat) ==
  \E k \in 0..(Len(line) - Len(pat)) :
    \A i \in 1..Len(pat) : line[k + i] = pat[i]

\* line.substr(n): the characters from index n (0-based) on.
substr(line, n) == IF n >= Len(line) THEN << >> ELSE SubSeq(line, n + 1, Len(line))

\* str.slice(0, -1): all but the last character.
sliceDropLast(s) == IF Len(s) = 0 THEN << >> ELSE SubSeq(s, 1, Len(s) - 1)

(***************************************************************************)
(* data.toString(): UTF-8 decoding of the chunk.  An ASCII byte decodes to *)
(* itself.  The chunks of this model hold no UTF-8 lead byte (0xC2..0xF4), *)
(* so every byte >= 0x80 is an invalid sequence of its own and decodes to  *)
(* U+FFFD.                                                                 *)
(***************************************************************************)
ReplacementChar == 65533

toString(data) == [i \in 1..Len(data) |-> IF data[i] < 128 THEN data[i] ELSE ReplacementChar]

(***************************************************************************)
(* SHA-1 (crypto.createHash('sha1')), on 32-bit words kept as a pair of    *)
(* 16-bit halves << hi, lo >>.  The bit operations go through tables on    *)
(* 4-bit digits, tabulated once.                                           *)
(***************************************************************************)
H16 == 65536

Digits == 0..15

XorTable == [a \in Digits |-> [b \in Digits |-> BitXor(a, b)]]

\* Ch(b, c, d) = (b AND c) OR ((NOT b) AND d), rounds 0..19.
ChTable ==
  [b \in Digits |-> [c \in Digits |-> [d \in Digits |->
     BitOr(BitAnd(b, c), BitAnd(15 - b, d))]]]

\* Parity(b, c, d) = b XOR c XOR d, rounds 20..39 and 60..79.
ParityTable ==
  [b \in Digits |-> [c \in Digits |-> [d \in Digits |-> BitXor(BitXor(b, c), d)]]]

\* Maj(b, c, d) = (b AND c) OR (b AND d) OR (c AND d), rounds 40..59.
MajTable ==
  [b \in Digits |-> [c \in Digits |-> [d \in Digits |->
     BitOr(BitOr(BitAnd(b, c), BitAnd(b, d)), BitAnd(c, d))]]]

Xor16(a, b) ==
  XorTable[a % 16][b % 16]
  + 16 * XorTable[(a \div 16) % 16][(b \div 16) % 16]
  + 256 * XorTable[(a \div 256) % 16][(b \div 256) % 16]
  + 4096 * XorTable[a \div 4096][b \div 4096]

Ch16(b, c, d) ==
  ChTable[b % 16][c % 16][d % 16]
  + 16 * ChTable[(b \div 16) % 16][(c \div 16) % 16][(d \div 16) % 16]
  + 256 * ChTable[(b \div 256) % 16][(c \div 256) % 16][(d \div 256) % 16]
  + 4096 * ChTable[b \div 4096][c \div 4096][d \div 4096]

Parity16(b, c, d) ==
  ParityTable[b % 16][c % 16][d % 16]
  + 16 * ParityTable[(b \div 16) % 16][(c \div 16) % 16][(d \div 16) % 16]
  + 256 * ParityTable[(b \div 256) % 16][(c \div 256) % 16][(d \div 256) % 16]
  + 4096 * ParityTable[b \div 4096][c \div 4096][d \div 4096]

Maj16(b, c, d) ==
  MajTable[b % 16][c % 16][d % 16]
  + 16 * MajTable[(b \div 16) % 16][(c \div 16) % 16][(d \div 16) % 16]
  + 256 * MajTable[(b \div 256) % 16][(c \div 256) % 16][(d \div 256) % 16]
  + 4096 * MajTable[b \div 4096][c \div 4096][d \div 4096]

WXor(x, y) == << Xor16(x[1], y[1]), Xor16(x[2], y[2]) >>

\* Addition modulo 2^32.
WAdd(x, y) ==
  << (x[1] + y[1] + ((x[2] + y[2]) \div H16)) % H16, (x[2] + y[2]) % H16 >>

\* a + b + c + d + e modulo 2^32.
WAdd5(a, b, c, d, e) ==
  << (a[1] + b[1] + c[1] + d[1] + e[1]
        + ((a[2] + b[2] + c[2] + d[2] + e[2]) \div H16)) % H16,
     (a[2] + b[2] + c[2] + d[2] + e[2]) % H16 >>

\* Rotations to the left, by 1, 5 and 30 bits.
WRotl1(x) ==
  << ((x[1] * 2) % H16) + (x[2] \div 32768), ((x[2] * 2) % H16) + (x[1] \div 32768) >>

WRotl5(x) ==
  << ((x[1] * 32) % H16) + (x[2] \div 2048), ((x[2] * 32) % H16) + (x[1] \div 2048) >>

WRotl30(x) ==
  << ((x[2] * 16384) % H16) + (x[1] \div 4), ((x[1] * 16384) % H16) + (x[2] \div 4) >>

\* The padded message: 0x80, zeros to 56 mod 64, the bit length on 8 bytes.
ShaPad(msg) ==
  msg \o << 128 >> \o [i \in 1..((119 - (Len(msg) % 64)) % 64) |-> 0]
      \o << 0, 0, 0, 0, 0, (Len(msg) * 8) \div 65536,
            ((Len(msg) * 8) \div 256) % 256, (Len(msg) * 8) % 256 >>

\* Word t (0..15) of the block starting at byte offset off of the padded message.
ShaWord(p, off, t) ==
  << p[off + 4 * t + 1] * 256 + p[off + 4 * t + 2],
     p[off + 4 * t + 3] * 256 + p[off + 4 * t + 4] >>

\* The message schedule W[0..79], as the sequence w[1..80]:
\* W[t] = ROTL1(W[t-3] XOR W[t-8] XOR W[t-14] XOR W[t-16]).
RECURSIVE ShaSchedule(_)
ShaSchedule(w) ==
  IF Len(w) = 80 THEN w
  ELSE ShaSchedule(Append(w,
         WRotl1(WXor(WXor(w[Len(w) - 2], w[Len(w) - 7]),
                     WXor(w[Len(w) - 13], w[Len(w) - 15])))))

ShaF(t, b, c, d) ==
  IF t < 20 THEN << Ch16(b[1], c[1], d[1]), Ch16(b[2], c[2], d[2]) >>
  ELSE IF t >= 40 /\ t < 60 THEN << Maj16(b[1], c[1], d[1]), Maj16(b[2], c[2], d[2]) >>
  ELSE << Parity16(b[1], c[1], d[1]), Parity16(b[2], c[2], d[2]) >>

\* 0x5A827999, 0x6ED9EBA1, 0x8F1BBCDC, 0xCA62C1D6
ShaK(t) ==
  IF t < 20 THEN << 23170, 31129 >>
  ELSE IF t < 40 THEN << 28377, 60321 >>
  ELSE IF t < 60 THEN << 36635, 48348 >>
  ELSE << 51810, 49622 >>

\* Rounds t..79 on the working variables s = << a, b, c, d, e >>.  (Len(s) has
\* TLC evaluate s at every round instead of building 80 nested thunks.)
RECURSIVE ShaRounds(_, _, _)
ShaRounds(w, t, s) ==
  IF t = 80 \/ Len(s) # 5 THEN s
  ELSE ShaRounds(w, t + 1,
         << WAdd5(WRotl5(s[1]), ShaF(t, s[2], s[3], s[4]), s[5], ShaK(t), w[t + 1]),
            s[1], WRotl30(s[2]), s[3], s[4] >>)

\* h + s, word by word.
ShaAddState(h, s) == [i \in 1..5 |-> WAdd(h[i], s[i])]

RECURSIVE ShaBlocks(_, _, _)
ShaBlocks(p, off, h) ==
  IF off >= Len(p) THEN h
  ELSE ShaBlocks(p, off + 64,
         ShaAddState(h, ShaRounds(ShaSchedule([t \in 1..16 |-> ShaWord(p, off, t - 1)]), 0, h)))

\* 0x67452301, 0xEFCDAB89, 0x98BADCFE, 0x10325476, 0xC3D2E1F0
ShaInit ==
  << << 26437, 8961 >>, << 61389, 43913 >>, << 39098, 56574 >>,
     << 4146, 21622 >>, << 50130, 57840 >> >>

\* The 20 bytes of the five words h, big-endian.
ShaDigestBytes(h) ==
  [i \in 1..20 |->
     IF (i - 1) % 4 = 0 THEN h[(i - 1) \div 4 + 1][1] \div 256
     ELSE IF (i - 1) % 4 = 1 THEN h[(i - 1) \div 4 + 1][1] % 256
     ELSE IF (i - 1) % 4 = 2 THEN h[(i - 1) \div 4 + 1][2] \div 256
     ELSE h[(i - 1) \div 4 + 1][2] % 256]

\* The 20 digest bytes of the byte sequence msg (shorter than 8192 bytes).
sha1(msg) == ShaDigestBytes(ShaBlocks(ShaPad(msg), 0, ShaInit))

(***************************************************************************)
(* digest('base64'): standard base64 with '=' padding.                     *)
(***************************************************************************)
B64Alphabet ==
  Str(<< "A", "B", "C", "D", "E", "F", "G", "H", "I", "J", "K", "L", "M", "N", "O", "P",
         "Q", "R", "S", "T", "U", "V", "W", "X", "Y", "Z", "a", "b", "c", "d", "e", "f",
         "g", "h", "i", "j", "k", "l", "m", "n", "o", "p", "q", "r", "s", "t", "u", "v",
         "w", "x", "y", "z", "0", "1", "2", "3", "4", "5", "6", "7", "8", "9", "+", "/" >>)

RECURSIVE base64(_)
base64(b) ==
  LET eq == Ord("=")
      c(v) == B64Alphabet[v + 1]
  IN  IF Len(b) = 0 THEN << >>
      ELSE IF Len(b) = 1 THEN
        << c(b[1] \div 4), c((b[1] % 4) * 16), eq, eq >>
      ELSE IF Len(b) = 2 THEN
        << c(b[1] \div 4), c((b[1] % 4) * 16 + b[2] \div 16), c((b[2] % 16) * 4), eq >>
      ELSE
        << c(b[1] \div 4), c((b[1] % 4) * 16 + b[2] \div 16),
           c((b[2] % 16) * 4 + b[3] \div 64), c(b[3] % 64) >>
        \o base64(SubSeq(b, 4, Len(b)))

(***************************************************************************)
(* The literals of the source.                                             *)
(***************************************************************************)
Http11 ==
  Str(<< "H", "T", "T", "P", "/", "1", ".", "1" >>)

UpgradeWebsocket ==
  Str(<< "U", "p", "g", "r", "a", "d", "e", ":", " ", "w", "e", "b", "s", "o", "c",
         "k", "e", "t" >>)

SecWebSocketKey ==
  Str(<< "S", "e", "c", "-", "W", "e", "b", "S", "o", "c", "k", "e", "t", "-", "K",
         "e", "y", ":" >>)

guid ==
  Str(<< "2", "5", "8", "E", "A", "F", "A", "5", "-", "E", "9", "1", "4", "-", "4",
         "7", "D", "A", "-", "9", "5", "C", "A", "-", "C", "5", "A", "B", "0", "D",
         "C", "8", "5", "B", "1", "1" >>)

BadRequest ==
  Str(<< "H", "T", "T", "P", "/", "1", ".", "1", " ", "4", "0", "0", " ", "B", "a",
         "d", " ", "R", "e", "q", "u", "e", "s", "t" >>)

SwitchingProtocols ==
  Str(<< "H", "T", "T", "P", "/", "1", ".", "1", " ", "1", "0", "1", " ", "S", "w",
         "i", "t", "c", "h", "i", "n", "g", " ", "P", "r", "o", "t", "o", "c", "o",
         "l", "s" >>)

ConnectionUpgrade ==
  Str(<< "C", "o", "n", "n", "e", "c", "t", "i", "o", "n", ":", " ", "U", "p", "g",
         "r", "a", "d", "e" >>)

SecWebSocketAccept ==
  Str(<< "S", "e", "c", "-", "W", "e", "b", "S", "o", "c", "k", "e", "t", "-", "A",
         "c", "c", "e", "p", "t", ":", " " >>)

HelloReply ==
  Str(<< "H", "e", "l", "l", "o", " ", "f", "r", "o", "m", " ", "a", " ", "W", "e",
         "b", "S", "o", "c", "k", "e", "t", " ", "S", "e", "r", "v", "e", "r", "!" >>)

\* JavaScript's null (returnString, clientKey): a value no text equals.
Null == << -1 >>

(***************************************************************************)
(* The classification predicates.                                          *)
(***************************************************************************)
\* The forEach of #isSocketUpgradeRequest: some line includes pat.
SomeLineIncludes(lines, pat) == \E k \in 1..Len(lines) : includes(lines[k], pat)

\* #isSocketUpgradeRequest: some line of the chunk includes 'Upgrade: websocket'.
isSocketUpgradeRequest(data) == SomeLineIncludes(split(toString(data)), UpgradeWebsocket)

\* A different test, for comparison: 'HTTP/1.1' looked for on every line.
isHttpAnyLine(data) == SomeLineIncludes(split(toString(data)), Http11)

\* #isHttp: the first line of the chunk includes 'HTTP/1.1'.
isHttp(data) == includes(split(toString(data))[1], Http11)

(***************************************************************************)
(* The handshake.                                                          *)
(***************************************************************************)
\* 'binary' (latin1) encoding of update(key + guid, 'binary'): the low byte of
\* each character code.
Latin1(str) == [i \in 1..Len(str) |-> str[i] % 256]

\* A different derivation, for comparison: the key hashed without the GUID.
generateServerKeyNoGuid(key) == base64(sha1(Latin1(key)))

\* generateServerKey: base64 of the SHA-1 of the key followed by the GUID.
generateServerKey(key) == base64(sha1(Latin1(key \o guid)))

\* The forEach of #generateHandshakeMsg: clientKey after the lines 1..n have
\* been visited; a later key line overwrites an earlier one.
RECURSIVE ClientKeyAfter(_, _)
ClientKeyAfter(lines, n) ==
  IF n = 0 THEN Null
  ELSE IF startsWith(lines[n], SecWebSocketKey)
    THEN sliceDropLast(substr(lines[n], 19))
  ELSE ClientKeyAfter(lines, n - 1)

\* All the lines visited.
ClientKeyOfLines(lines) == ClientKeyAfter(lines, Len(lines))

\* The local clientKey of #generateHandshakeMsg when the forEach is done.
clientKeyOf(data) == ClientKeyOfLines(split(toString(data)))

\* The message built from clientKey by src/unnamed/part_000.
HandshakeMsg000(clientKey) ==
  IF clientKey # Null
    THEN SwitchingProtocols \o << CR, LF >>
           \o UpgradeWebsocket \o << CR, LF >>
           \o ConnectionUpgrade \o << CR, LF >>
           \o SecWebSocketAccept \o generateServerKey(clientKey) \o << CR, LF, CR, LF >>
  ELSE BadRequest

\* The message built from clientKey by src/server/classes/WebSocketServer.js.
HandshakeMsgClasses(clientKey) ==
  IF clientKey # Null
    THEN SwitchingProtocols \o << LF >>
           \o UpgradeWebsocket \o << LF >>
           \o ConnectionUpgrade \o << LF >>
           \o SecWebSocketAccept \o generateServerKey(clientKey)
  ELSE BadRequest

\* #generateHandshakeMsg of src/unnamed/part_000.
generateHandshakeMsg000(data) == HandshakeMsg000(clientKeyOf(data))

\* #generateHandshakeMsg of src/server/classes/WebSocketServer.js.
generateHandshakeMsgClasses(data) == HandshakeMsgClasses(clientKeyOf(data))

(***************************************************************************)
(* The frame codec (src/unnamed/part_000 only).                            *)
(***************************************************************************)
\* bytes[i] of a Buffer: undefined at or past its end.
Undefined == -1

ByteAt(bytes, i) == IF i < Len(bytes) THEN bytes[i + 1] ELSE Undefined

\* The operand of & and ^: undefined converts to 0.
ToInt32(v) == IF v = Undefined THEN 0 ELSE v

maskStart == 2

dataStart == maskStart + 4

\* let length = bytes[1] & 127
frameLength(bytes) == BitAnd(ToInt32(ByteAt(bytes, 1)), 127)

\* A different decoder, for comparison: the mask byte chosen by i % 4
\* rather than by (i - dataStart) % 4.
parseMessageMaskByIndex(buffer) ==
  [k \in 1..frameLength(buffer) |->
     BitXor(ToInt32(ByteAt(buffer, dataStart + k - 1)),
            ToInt32(ByteAt(buffer, maskStart + ((dataStart + k - 1) % 4))))]

\* #parseMessage: the characters the loop appends, for i = dataStart + k - 1.
parseMessage(buffer) ==
  [k \in 1..frameLength(buffer) |->
     BitXor(ToInt32(ByteAt(buffer, dataStart + k - 1)),
            ToInt32(ByteAt(buffer, maskStart + (((dataStart + k - 1) - dataStart) % 4))))]

\* The indices of the buffer that #parseMessage reads.
parseMessageReads(buffer) ==
  { 1 }
    \cup { dataStart + k - 1 : k \in 1..frameLength(buffer) }
    \cup { maskStart + (((dataStart + k - 1) - dataStart) % 4) : k \in 1..frameLength(buffer) }

\* The concatenation of the sequences f[lo..hi].
RECURSIVE Concat(_, _, _)
Concat(f, lo, hi) ==
  IF lo > hi THEN << >>
  ELSE IF lo = hi THEN f[lo]
  ELSE Concat(f, lo, (lo + hi) \div 2) \o Concat(f, (lo + hi) \div 2 + 1, hi)

HexDigit(n) == IF n < 10 THEN 48 + n ELSE 87 + n

\* JSON.stringify of one character of a string (a code unit below 0xD800).
JsonChar(c) ==
  IF c = 34 THEN << 92, 34 >>
  ELSE IF c = 92 THEN << 92, 92 >>
  ELSE IF c = 8 THEN << 92, 98 >>
  ELSE IF c = 9 THEN << 92, 116 >>
  ELSE IF c = 10 THEN << 92, 110 >>
  ELSE IF c = 12 THEN << 92, 102 >>
  ELSE IF c = 13 THEN << 92, 114 >>
  ELSE IF c < 32 THEN << 92, 117, 48, 48, HexDigit(c \div 16), HexDigit(c % 16) >>
  ELSE << c >>

\* JSON.stringify(string): the quoted, escaped string.
JSONstringify(string) ==
  << 34 >> \o Concat([i \in 1..Len(string) |-> JsonChar(string[i])], 1, Len(string)) \o << 34 >>

\* The UTF-8 bytes of one character (a code unit below 0xD800).
Utf8Char(c) ==
  IF c < 128 THEN << c >>
  ELSE IF c < 2048 THEN << 192 + (c \div 64), 128 + (c % 64) >>
  ELSE << 224 + (c \div 4096), 128 + ((c \div 64) % 64), 128 + (c % 64) >>

\* The UTF-8 bytes of a string: what buffer.write(json, offset) writes and
\* Buffer.byteLength(json) counts.
Utf8(str) == Concat([i \in 1..Len(str) |-> Utf8Char(str[i])], 1, Len(str))

\* Buffer.alloc(n): n zero bytes.
BufferAlloc(n) == [i \in 1..n |-> 0]

\* buffer.writeUInt8 / writeUInt16BE / write: the bytes put at offset off, the rest kept.
BufferWrite(buffer, off, bytes) ==
  [i \in 1..Len(buffer) |->
     IF i - 1 >= off /\ i - 1 < off + Len(bytes) THEN bytes[i - off] ELSE buffer[i]]

\* The two bytes of writeUInt16BE(value), 0 <= value <= 65535.
UInt16BE(value) == << value \div 256, value % 256 >>

\* A different switch, for comparison: the short form kept up to 126.
lengthByteCountUpTo126(jsonByteLength) == IF jsonByteLength <= 126 THEN 0 ELSE 2

lengthByteCount(jsonByteLength) == IF jsonByteLength < 126 THEN 0 ELSE 2

payloadLength(jsonByteLength) ==
  IF lengthByteCount(jsonByteLength) = 0 THEN jsonByteLength ELSE 126

payloadOffset(jsonByteLength) ==
  IF lengthByteCount(jsonByteLength) > 0 THEN 2 + lengthByteCount(jsonByteLength) ELSE 2

\* The writes of #encodeReply on the allocated buffer, given the bytes of json.
EncodeWrites(jsonBytes) ==
  BufferWrite(
    IF lengthByteCount(Len(jsonBytes)) > 0
      THEN BufferWrite(
             BufferWrite(
               BufferWrite(BufferAlloc(2 + lengthByteCount(Len(jsonBytes)) + Len(jsonBytes)),
                           0, << 129 >>),
               1, << payloadLength(Len(jsonBytes)) >>),
             2, UInt16BE(Len(jsonBytes)))
    ELSE BufferWrite(
           BufferWrite(BufferAlloc(2 + lengthByteCount(Len(jsonBytes)) + Len(jsonBytes)),
                       0, << 129 >>),
           1, << payloadLength(Len(jsonBytes)) >>),
    payloadOffset(Len(jsonBytes)), jsonBytes)

\* #encodeReply(string), for a string whose JSON text is at most 65535 bytes.
encodeReply(string) == EncodeWrites(Utf8(JSONstringify(string)))

(***************************************************************************)
(* #generateServerReply: the line it logs (log), the reply it returns      *)
(* (returnString, Null for none), and what its callees left behind: the    *)
(* client key of the handshake (clientKey), the decoded message (msg) and  *)
(* the buffer indices #parseMessage read (reads).                          *)
(***************************************************************************)
LogUpgrade == "WebSocketServer received a upgrade request"
LogHttp    == "WebSocketServer received a HTTP request"
LogData    == "The server received some data"

\* src/unnamed/part_000
generateServerReply000(data) ==
  IF isHttp(data)
    THEN IF isSocketUpgradeRequest(data)
           THEN [log |-> LogUpgrade, returnString |-> generateHandshakeMsg000(data),
                 clientKey |-> clientKeyOf(data), msg |-> Null, reads |-> {}]
         ELSE [log |-> LogHttp, returnString |-> Null,
               clientKey |-> Null, msg |-> Null, reads |-> {}]
  ELSE [log |-> LogData, returnString |-> encodeReply(HelloReply),
        clientKey |-> Null, msg |-> parseMessage(data), reads |-> parseMessageReads(data)]

\* src/server/classes/WebSocketServer.js
generateServerReplyClasses(data) ==
  IF isHttp(data) /\ isSocketUpgradeRequest(data)
    THEN [log |-> LogUpgrade, returnString |-> generateHandshakeMsgClasses(data),
          clientKey |-> clientKeyOf(data), msg |-> Null, reads |-> {}]
  ELSE [log |-> LogData, returnString |-> Null,
        clientKey |-> Null, msg |-> Null, reads |-> {}]

Variants == { "part_000", "server_classes" }

generateServerReply(v, data) ==
  IF v = "part_000" THEN generateServerReply000(data) ELSE generateServerReplyClasses(data)

(***************************************************************************)
(* The chunks a client may send.                                           *)
(***************************************************************************)
\* Bounds of the model.
MaxEvents == 2
MaxPayloadLen == 2
MaxShortLen == 2

Sockets == { 1, 2 }

\* The key of the handshake example of RFC 6455 and a short one.
RfcKey ==
  Str(<< "d", "G", "h", "l", "I", "H", "N", "h", "b", "X", "B", "s", "Z", "S", "B",
         "u", "b", "2", "5", "j", "Z", "Q", "=", "=" >>)

ShortKey ==
  Str(<< "a", "b", "c", "d" >>)

GetRequestLine ==
  Str(<< "G", "E", "T", " ", "/", " ", "H", "T", "T", "P", "/", "1", ".", "1" >>)

CRLF == << CR, LF >>

\* An HTTP-like chunk: an optional line pre, the line first, an optional upgrade
\* line up, an optional key line; every line but a last key line ends with eol,
\* and the key line is either the last, unterminated text of the chunk or is
\* followed by eol and a blank line.  An absent line is << >>.
HttpChunk(pre, first, eol, up, keyLine, terminated) ==
  (IF pre = << >> THEN << >> ELSE pre \o eol)
    \o first \o eol
    \o (IF up = << >> THEN << >> ELSE up \o eol)
    \o (IF keyLine = << >> THEN eol
        ELSE IF terminated THEN keyLine \o eol \o eol
        ELSE keyLine)

Preambles == { << >>, Str(<< "x" >>) }

RequestLines == { GetRequestLine, Str(<< "P", "I", "N", "G" >>) }

Eols == { CRLF, << LF >> }

UpgradeLines ==
  { << >>, UpgradeWebsocket, Str(<< "X", "-" >>) \o UpgradeWebsocket,
    Str(<< "u", "p", "g", "r", "a", "d", "e", ":", " ", "w", "e", "b", "s", "o", "c",
           "k", "e", "t" >>) }

KeyValues == { << >>, ShortKey, RfcKey }

KeyLines ==
  { << >> }
    \cup { SecWebSocketKey \o << 32 >> \o k : k \in KeyValues }
    \cup { SecWebSocketKey \o k : k \in KeyValues }
    \cup { Str(<< "X", "-" >>) \o SecWebSocketKey \o << 32 >> \o k : k \in KeyValues }

HttpChunks ==
  { HttpChunk(pre, first, eol, up, keyLine, terminated) :
      pre \in Preambles, first \in RequestLines, eol \in Eols,
      up \in UpgradeLines, keyLine \in KeyLines, terminated \in BOOLEAN }

\* A request with two key lines.
TwoKeysRequest ==
  GetRequestLine \o CRLF \o UpgradeWebsocket \o CRLF
    \o SecWebSocketKey \o << 32 >> \o RfcKey \o CRLF
    \o SecWebSocketKey \o << 32 >> \o ShortKey \o CRLF \o CRLF

\* payload[i] XOR key[i mod 4], i from 0.
Mask(payload, key) ==
  [i \in 1..Len(payload) |-> BitXor(payload[i], key[((i - 1) % 4) + 1])]

\* The frame a client sends for payload: byte 0, the mask bit and the length,
\* the key, the masked payload.
ClientFrame(byte0, maskBit, key, payload) ==
  << byte0, 128 * maskBit + Len(payload) >> \o key \o Mask(payload, key)

FirstBytes == { 129, 1, 136 }

MaskKeys == { << 0, 0, 0, 0 >>, << 1, 2, 3, 4 >>, << 255, 128, 15, 10 >> }

PayloadBytes == { 0, 72, 255 }

ShortPayloads == UNION { [1..n -> PayloadBytes] : n \in 0..MaxPayloadLen }

LongPayload(n) == [i \in 1..n |-> (7 * i + 3) % 256]

Payloads == ShortPayloads \cup { LongPayload(5), LongPayload(125) }

Frames ==
  { ClientFrame(b, m, key, payload) :
      b \in FirstBytes, m \in { 0, 1 }, key \in MaskKeys, payload \in Payloads }

\* Frames cut short: every proper, non-empty prefix of a short frame.
TruncatedFrames ==
  UNION { { SubSeq(ClientFrame(129, 1, << 1, 2, 3, 4 >>, payload), 1, n) :
              n \in 1..(5 + Len(payload)) } : payload \in ShortPayloads }

\* A frame that declares 5 payload bytes and carries 2.
ShortFrame == << 129, 133, 1, 2, 3, 4, 73, 75 >>

\* The chunks of the one-chunk specification.
UnitChunks == HttpChunks \cup { TwoKeysRequest, ShortFrame } \cup Frames \cup TruncatedFrames

\* The chunks of the connection-level specification.
ServerChunks ==
  { HttpChunk(<< >>, GetRequestLine, CRLF, UpgradeWebsocket,
              SecWebSocketKey \o << 32 >> \o ShortKey, TRUE),
    HttpChunk(<< >>, GetRequestLine, CRLF, UpgradeWebsocket, << >>, TRUE),
    HttpChunk(<< >>, GetRequestLine, CRLF, << >>, << >>, TRUE),
    HttpChunk(Str(<< "x" >>), GetRequestLine, << LF >>, UpgradeWebsocket, << >>, TRUE),
    ClientFrame(129, 1, << 1, 2, 3, 4 >>, << 72, 105 >>),
    ShortFrame }

\* The strings given to #encodeReply: n letters and one special character
\* (a quote, a backslash, a line feed, U+0001, U+00E9, U+20AC) or none.
Specials == { << >>, << 34 >>, << 92 >>, << 10 >>, << 1 >>, << 233 >>, << 8364 >> }

EncodeLens == (0..MaxShortLen) \cup (117..124) \cup { 300 }

EncodeStrings ==
  { [i \in 1..n |-> 97] \o sp : n \in EncodeLens, sp \in Specials } \cup { HelloReply }

(***************************************************************************)
(* The state.                                                              *)
(***************************************************************************)
VARIABLES
  variant,       \* which version of the class runs
  listening,     \* listen(port) was called
  conns,         \* the accepted sockets, each with its 'data' handler
  written,       \* per socket, the sequence of socket.write arguments
  nEvents,       \* the 'data' events handled so far
  lastSock,      \* the socket of the last 'data' event (0: none yet)
  data,          \* its chunk
  logged,        \* the line #generateServerReply logged for it
  returnString,  \* what #generateServerReply returned for it
  clientKey,     \* the clientKey of #generateHandshakeMsg, if it ran
  msg,           \* the result of #parseMessage, if it ran
  reads,         \* the buffer indices #parseMessage read
  prevWritten,   \* written before the last 'data' event
  replyLog,      \* every << chunk, reply >> so far, over all sockets
  string,        \* the argument of a direct call of #encodeReply
  frame          \* its result

vars ==
  << variant, listening, conns, written, nEvents, lastSock, data, logged, returnString,
     clientKey, msg, reads, prevWritten, replyLog, string, frame >>

\* The state after `new WebSocketServer()`.
Constructed ==
  /\ variant \in Variants
  /\ written = [s \in Sockets |-> << >>]
  /\ nEvents = 0
  /\ lastSock = 0
  /\ data = << >>
  /\ logged = "none"
  /\ returnString = Null
  /\ clientKey = Null
  /\ msg = Null
  /\ reads = {}
  /\ prevWritten = [s \in Sockets |-> << >>]
  /\ replyLog = {}
  /\ string = Null
  /\ frame = Null

Init ==
  /\ Constructed
  /\ listening = FALSE
  /\ conns = {}

\* listen(port)
Listen ==
  /\ ~listening
  /\ listening' = TRUE
  /\ UNCHANGED << variant, conns, written, nEvents, lastSock, data, logged, returnString,
                  clientKey, msg, reads, prevWritten, replyLog, string, frame >>

\* The callback of net.createServer: a socket is accepted and gets its handler.
Connect(s) ==
  /\ listening
  /\ s \notin conns
  /\ conns' = conns \cup { s }
  /\ UNCHANGED << variant, listening, written, nEvents, lastSock, data, logged,
                  returnString, clientKey, msg, reads, prevWritten, replyLog, string, frame >>

\* A different write, for comparison: the reply sent to every socket.
socketWriteToAll(w, s, reply) ==
  IF reply # Null THEN [t \in DOMAIN w |-> Append(w[t], reply)] ELSE w

\* if (returnString !== null) socket.write(returnString)
socketWrite(w, s, reply) ==
  IF reply # Null THEN [w EXCEPT ![s] = Append(@, reply)] ELSE w

\* A different handler, for comparison: one that keeps the handshake in mind
\* and answers a chunk that is not HTTP only after a 101 on the socket.
DataEventGated(s, chunk) ==
  /\ s \in conns
  /\ nEvents < MaxEvents
  /\ \E r \in { generateServerReply(variant, chunk) } :
       \E reply \in { IF r.log = LogData
                          /\ ~\E i \in 1..Len(written[s]) :
                                startsWith(written[s][i], SwitchingProtocols)
                        THEN Null ELSE r.returnString } :
         /\ logged' = r.log
         /\ returnString' = reply
         /\ clientKey' = r.clientKey
         /\ msg' = (IF reply = Null THEN Null ELSE r.msg)
         /\ reads' = (IF reply = Null THEN {} ELSE r.reads)
         /\ written' = socketWrite(written, s, reply)
         /\ replyLog' = replyLog \cup { << chunk, reply >> }
  /\ data' = chunk
  /\ lastSock' = s
  /\ prevWritten' = written
  /\ nEvents' = nEvents + 1
  /\ UNCHANGED << variant, listening, conns, string, frame >>

\* The 'data' handler of socket s, on the chunk.
DataEvent(s, chunk) ==
  /\ s \in conns
  /\ nEvents < MaxEvents
  /\ \E r \in { generateServerReply(variant, chunk) } :
       /\ logged' = r.log
       /\ returnString' = r.returnString
       /\ clientKey' = r.clientKey
       /\ msg' = r.msg
       /\ reads' = r.reads
       /\ written' = socketWrite(written, s, r.returnString)
       /\ replyLog' = replyLog \cup { << chunk, r.returnString >> }
  /\ data' = chunk
  /\ lastSock' = s
  /\ prevWritten' = written
  /\ nEvents' = nEvents + 1
  /\ UNCHANGED << variant, listening, conns, string, frame >>

Next ==
  \/ Listen
  \/ \E s \in Sockets : Connect(s)
  \/ \E s \in Sockets, chunk \in ServerChunks : DataEvent(s, chunk)

Spec == Init /\ [][Next]_vars

(***************************************************************************)
(* One chunk on one socket, or one call of #encodeReply: the functions of  *)
(* the class on every input of the families above.                         *)
(***************************************************************************)
InitUnit ==
  /\ Constructed
  /\ listening = TRUE
  /\ conns = { 1 }

\* #encodeReply(str), which only src/unnamed/part_000 has.
CallEncodeReply(str) ==
  /\ variant = "part_000"
  /\ nEvents = 0
  /\ string = Null
  /\ string' = str
  /\ frame' = encodeReply(str)
  /\ UNCHANGED << variant, listening, conns, written, nEvents, lastSock, data, logged,
                  returnString, clientKey, msg, reads, prevWritten, replyLog >>

OneDataEvent(chunk) ==
  /\ nEvents = 0
  /\ string = Null
  /\ DataEvent(1, chunk)

NextUnit ==
  \/ \E chunk \in UnitChunks : OneDataEvent(chunk)
  \/ \E str \in EncodeStrings : CallEncodeReply(str)

SpecUnit == InitUnit /\ [][NextUnit]_vars

(***************************************************************************)
(* The vocabulary of the properties, stated on the text of the chunk       *)
(* rather than through the functions of the class.                         *)
(***************************************************************************)
\* The text before the first line feed (all of it when there is none).
FirstLineOf(t) ==
  IF \E i \in 1..Len(t) : t[i] = LF
    THEN SubSeq(t, 1, (CHOOSE i \in 1..Len(t) : t[i] = LF /\ \A j \in 1..(i - 1) : t[j] # LF) - 1)
  ELSE t

\* The class of a chunk.  The patterns hold no line feed, so some line
\* contains a pattern exactly when the text does.
ClassOf(chunk) ==
  IF includes(FirstLineOf(toString(chunk)), Http11)
    THEN IF includes(toString(chunk), UpgradeWebsocket) THEN "UpgradeRequest" ELSE "PlainHttp"
  ELSE "DataFrame"

\* The positions of t at which a line starts with pat.
LineStarts(t, pat) ==
  { p \in 1..Len(t) :
      /\ p = 1 \/ t[p - 1] = LF
      /\ p + Len(pat) - 1 <= Len(t)
      /\ \A i \in 1..Len(pat) : t[p + i - 1] = pat[i] }

HasKeyLine(t) == LineStarts(t, SecWebSocketKey) # {}

\* The last line of t that starts with 'Sec-WebSocket-Key:', without its line feed.
LastKeyLine(t) ==
  LET p == CHOOSE q \in LineStarts(t, SecWebSocketKey) :
             \A r \in LineStarts(t, SecWebSocketKey) : r <= q
      e == IF \E i \in p..Len(t) : t[i] = LF
             THEN CHOOSE i \in p..Len(t) : t[i] = LF /\ \A j \in p..(i - 1) : t[j] # LF
           ELSE Len(t) + 1
  IN  SubSeq(t, p, e - 1)

\* The slicing rule: the first 19 characters and the last one dropped.
SlicedKey(t) == SubSeq(LastKeyLine(t), 20, Len(LastKeyLine(t)) - 1)

\* The key of a key line: what follows the prefix and its space, less a
\* trailing carriage return.
KeyValueOf(line) ==
  IF Len(line) > 19 /\ line[Len(line)] = CR THEN SubSeq(line, 20, Len(line) - 1)
  ELSE SubSeq(line, 20, Len(line))

RfcGuid ==
  Str(<< "2", "5", "8", "E", "A", "F", "A", "5", "-", "E", "9", "1", "4", "-", "4",
         "7", "D", "A", "-", "9", "5", "C", "A", "-", "C", "5", "A", "B", "0", "D",
         "C", "8", "5", "B", "1", "1" >>)

\* The accept key RFC 6455 gives for RfcKey.
RfcAccept ==
  Str(<< "s", "3", "p", "P", "L", "M", "B", "i", "T", "x", "a", "Q", "9", "k", "Y",
         "G", "z", "z", "h", "Z", "R", "b", "K", "+", "x", "O", "o", "=" >>)

\* The lines of a response, each without its carriage return.
ResponseLines(r) ==
  [k \in 1..Len(split(r)) |->
     IF Len(split(r)[k]) > 0 /\ split(r)[k][Len(split(r)[k])] = CR
       THEN sliceDropLast(split(r)[k])
     ELSE split(r)[k]]

Is101(w) == startsWith(w, SwitchingProtocols)

\* The frame of the fixed reply: 0x81, the length 32, the JSON-quoted text.
HelloFrame == << 129, 32, 34 >> \o HelloReply \o << 34 >>

\* The writes of the last 'data' event.
LastWrites ==
  SubSeq(written[lastSock], Len(prevWritten[lastSock]) + 1, Len(written[lastSock]))

(***************************************************************************)
(* C1.  For every delivered chunk the handler writes at most once, as the  *)
(* class of the chunk decides: an UpgradeRequest gets exactly one write,   *)
(* the handshake response; a PlainHttp chunk gets none; a DataFrame gets   *)
(* exactly one, the frame of "Hello from a WebSocket Server!", whatever    *)
(* the payload of the chunk.                                               *)
(***************************************************************************)
C1_OneWritePerChunk ==
  lastSock # 0 =>
    /\ Len(LastWrites) <= 1
    /\ ClassOf(data) = "UpgradeRequest" =>
         /\ Len(LastWrites) = 1
         /\ Is101(LastWrites[1]) \/ LastWrites[1] = BadRequest
    /\ ClassOf(data) = "PlainHttp" => LastWrites = << >>
    /\ ClassOf(data) = "DataFrame" => LastWrites = << HelloFrame >>

\* The same, of src/unnamed/part_000 alone.
C1_OneWritePerChunk000 == variant = "part_000" => C1_OneWritePerChunk

(***************************************************************************)
(* C2.  The classification is total and exclusive: a chunk whose first     *)
(* line contains 'HTTP/1.1' is an UpgradeRequest if some line contains     *)
(* 'Upgrade: websocket' and PlainHttp if none does; a chunk whose first    *)
(* line lacks 'HTTP/1.1' is a DataFrame, whatever its later lines.  In     *)
(* src/unnamed/part_000 each class has its own branch; in                  *)
(* src/server/classes the upgrade branch is taken for the UpgradeRequest   *)
(* class and no other.                                                     *)
(***************************************************************************)
C2_Classification ==
  logged # "none" =>
    /\ ClassOf(data) \in { "UpgradeRequest", "PlainHttp", "DataFrame" }
    /\ variant = "part_000" =>
         logged = (IF ClassOf(data) = "UpgradeRequest" THEN LogUpgrade
                   ELSE IF ClassOf(data) = "PlainHttp" THEN LogHttp
                   ELSE LogData)
    /\ variant = "server_classes" =>
         (logged = LogUpgrade <=> ClassOf(data) = "UpgradeRequest")

\* A chunk taken as a data frame although later lines hold both patterns.
C2_Witness ==
  /\ variant = "part_000"
  /\ logged = LogData
  /\ ~includes(FirstLineOf(toString(data)), Http11)
  /\ includes(toString(data), Http11)
  /\ includes(toString(data), UpgradeWebsocket)

(***************************************************************************)
(* C3.  Negotiating an upgrade request returns exactly 'HTTP/1.1 400 Bad   *)
(* Request' if and only if no line of the request starts with              *)
(* 'Sec-WebSocket-Key:'; otherwise the response has the status line        *)
(* 'HTTP/1.1 101 Switching Protocols', then 'Upgrade: websocket',          *)
(* 'Connection: Upgrade' and 'Sec-WebSocket-Accept: ' with the base64 of   *)
(* the SHA-1 of the extracted key followed by the GUID.  Either way the    *)
(* response is a returned value, which the handler writes.                 *)
(***************************************************************************)
C3_Handshake ==
  logged = LogUpgrade =>
    /\ returnString = BadRequest <=> ~HasKeyLine(toString(data))
    /\ HasKeyLine(toString(data)) =>
         /\ Len(ResponseLines(returnString)) >= 4
         /\ ResponseLines(returnString)[1] = SwitchingProtocols
         /\ ResponseLines(returnString)[2] = UpgradeWebsocket
         /\ ResponseLines(returnString)[3] = ConnectionUpgrade
         /\ ResponseLines(returnString)[4]
              = SecWebSocketAccept \o base64(sha1(SlicedKey(toString(data)) \o RfcGuid))
    /\ LastWrites = << returnString >>

\* The handshake of RFC 6455: its key in, its accept key out.
C3_Witness ==
  /\ logged = LogUpgrade
  /\ HasKeyLine(toString(data))
  /\ SlicedKey(toString(data)) = RfcKey
  /\ ResponseLines(returnString)[4] = SecWebSocketAccept \o RfcAccept

\* The other case: a request without a key, answered 400.
C3_WitnessBadRequest ==
  /\ logged = LogUpgrade
  /\ ~HasKeyLine(toString(data))
  /\ written[lastSock] = << BadRequest >>

(***************************************************************************)
(* C4.  Every 101 Switching Protocols response the server writes is a      *)
(* fully terminated header block: each header line ends with CRLF and the  *)
(* response ends with the blank line, CRLF CRLF.                           *)
(***************************************************************************)
C4_HandshakeTerminated ==
  \A s \in Sockets : \A i \in 1..Len(written[s]) :
    Is101(written[s][i]) =>
      /\ \A k \in 1..Len(written[s][i]) :
           written[s][i][k] = LF => k > 1 /\ written[s][i][k - 1] = CR
      /\ Len(written[s][i]) >= 4
      /\ SubSeq(written[s][i], Len(written[s][i]) - 3, Len(written[s][i]))
           = << CR, LF, CR, LF >>

\* The same, of src/unnamed/part_000 alone.
C4_HandshakeTerminated000 == variant = "part_000" => C4_HandshakeTerminated

(***************************************************************************)
(* C5.  Decode round trip: for a payload of n < 126 bytes and a 4-byte     *)
(* mask key, decoding the chunk [byte 0, mask bit and n, key, payload[i]   *)
(* XOR key[i mod 4]] gives back the payload, whatever byte 0 and the mask  *)
(* bit are.                                                                *)
(***************************************************************************)
C5_DecodeRoundTrip ==
  (variant = "part_000" /\ logged = LogData) =>
    \A payload \in Payloads :
      (Len(payload) < 126 /\ Len(data) = 6 + Len(payload)) =>
        \A key \in MaskKeys, b \in FirstBytes, m \in { 0, 1 } :
          data = ClientFrame(b, m, key, payload) => msg = payload

\* A frame of 125 payload bytes, decoded.
C5_Witness ==
  /\ data = ClientFrame(129, 1, << 255, 128, 15, 10 >>, LongPayload(125))
  /\ msg = LongPayload(125)

(***************************************************************************)
(* C6.  Encode layout: with L the length of the JSON-quoted, UTF-8 encoded *)
(* payload, L <= 65535, the frame has byte 0 = 0x81 and the mask bit of    *)
(* byte 1 clear; for L < 126, byte 1 = L, the payload starts at offset 2   *)
(* and the frame has L + 2 bytes; for L >= 126, byte 1 = 126, bytes 2-3    *)
(* hold L big-endian, the payload starts at offset 4 and the frame has     *)
(* L + 4 bytes.                                                            *)
(***************************************************************************)
C6_EncodeLayout ==
  (string # Null /\ Len(Utf8(JSONstringify(string))) <= 65535) =>
    /\ frame[1] = 129
    /\ frame[2] < 128
    /\ Len(Utf8(JSONstringify(string))) < 126 =>
         /\ frame[2] = Len(Utf8(JSONstringify(string)))
         /\ Len(frame) = Len(Utf8(JSONstringify(string))) + 2
         /\ SubSeq(frame, 3, Len(frame)) = Utf8(JSONstringify(string))
    /\ Len(Utf8(JSONstringify(string))) >= 126 =>
         /\ frame[2] = 126
         /\ frame[3] * 256 + frame[4] = Len(Utf8(JSONstringify(string)))
         /\ frame[3] < 256 /\ frame[4] < 256
         /\ Len(frame) = Len(Utf8(JSONstringify(string))) + 4
         /\ SubSeq(frame, 5, Len(frame)) = Utf8(JSONstringify(string))

\* The first length in the extended form: L = 126.
C6_Witness ==
  /\ string # Null
  /\ Len(Utf8(JSONstringify(string))) = 126
  /\ SubSeq(frame, 1, 4) = << 129, 126, 0, 126 >>
  /\ Len(frame) = 130

\* The last length in the short form: L = 125.
C6_WitnessShort ==
  /\ string # Null
  /\ Len(Utf8(JSONstringify(string))) = 125
  /\ SubSeq(frame, 1, 2) = << 129, 125 >>
  /\ Len(frame) = 127

(***************************************************************************)
(* C7.  Decoding a data chunk whose declared length (byte 1 & 0x7F)        *)
(* exceeds the bytes present after the 6-byte header yields a distinct     *)
(* MalformedFrame result and reads no position at or past the end of the   *)
(* chunk.                                                                  *)
(***************************************************************************)
MalformedFrame == << -2 >>

C7_MalformedFrame ==
  (variant = "part_000" /\ logged = LogData /\ Len(data) >= 2
     /\ BitAnd(data[2], 127) > (IF Len(data) > 6 THEN Len(data) - 6 ELSE 0)) =>
    /\ msg = MalformedFrame
    /\ \A i \in reads : i < Len(data)

(***************************************************************************)
(* C8.  Handshake gating: a chunk is decoded as a data frame and answered  *)
(* with a WebSocket frame only if a 101 Switching Protocols response was   *)
(* written earlier on the same connection.                                 *)
(***************************************************************************)
C8_HandshakeGating ==
  /\ \A s \in Sockets : \A i \in 1..Len(written[s]) :
       written[s][i][1] = 129 => \E j \in 1..(i - 1) : Is101(written[s][j])
  /\ (lastSock # 0 /\ msg # Null) =>
       \E j \in 1..Len(prevWritten[lastSock]) : Is101(prevWritten[lastSock][j])

(***************************************************************************)
(* C8, amended.  A chunk is decoded as a data frame and answered with a    *)
(* WebSocket frame exactly when src/unnamed/part_000 runs and the first    *)
(* line of the chunk lacks 'HTTP/1.1', whether or not a 101 response was   *)
(* written earlier on the connection.                                      *)
(***************************************************************************)
C8_NoGating ==
  lastSock # 0 =>
    ((msg # Null /\ LastWrites = << HelloFrame >>)
       <=> (variant = "part_000" /\ ~includes(FirstLineOf(toString(data)), Http11)))
    /\ (msg = Null => (LastWrites = << >> \/ LastWrites[1][1] # 129))

\* A data frame decoded and answered on a connection that never saw a 101.
C8_Witness ==
  /\ lastSock # 0
  /\ msg = << 72, 105 >>
  /\ written[lastSock] = << HelloFrame >>

C10_KeyExtraction ==
  (logged = LogUpgrade /\ HasKeyLine(toString(data))
     /\ startsWith(LastKeyLine(toString(data)), SecWebSocketKey \o << 32 >>)) =>
    clientKey = KeyValueOf(LastKeyLine(toString(data)))

\* The same, of the requests whose key line ends with a carriage return.
C10_KeyExtractionCRLF ==
  (logged = LogUpgrade /\ HasKeyLine(toString(data))
     /\ startsWith(LastKeyLine(toString(data)), SecWebSocketKey \o << 32 >>)
     /\ LastKeyLine(toString(data))[Len(LastKeyLine(toString(data)))] = CR) =>
    clientKey = KeyValueOf(LastKeyLine(toString(data)))

====
